---- MODULE Spec2Model ----
(***************************************************************************)
(* Model of the Cary codec of simple-midi-ai:                              *)
(*   midicsv_compressor   (MidiProcessor: event log -> 12 Cary streams)    *)
(*   midicsv_decompressor (MidiDecompressor: Cary stream -> event log)     *)
(*                                                                         *)
(* A line of the event log is modelled after `line.split(", ")`: a         *)
(* sequence of textual fields (strings).  Parsing a field is a lookup in   *)
(* the table of numeric literals, so a field that is not a literal of the  *)
(* requested type fails to parse, as `str::parse` does.                    *)
(* A Cary stream is a sequence of character codes (32 is the space).       *)
(***************************************************************************)
EXTENDS Integers, Sequences, FiniteSets, TLC

(***************************************************************************)
(* Program constants.                                                      *)
(***************************************************************************)
MAX_PITCHES == 110
MIN_PITCH == 22
SKIP_PITCHES == 24
DEFAULT_QUANTUM == 40
TEMPO_SCALE == 50000
NUM_CHANNELS == 128
MAX_TRACK == 8
GLYPH_LO == 33
GLYPH_HI == 126
SPACE == 32
TIME_QUANTUM == 40
PITCH_RANGE == 87
MIDI_BASE == 21
VELOCITY_ON == 127

(***************************************************************************)
(* Bounds of the model.  The encoder's matrix has MAX_TIME_STEPS rows      *)
(* (150_000 in the source, scaled here) and the decoder's D_MAX_TIME_STEPS  *)
(* (its MAX_TIME_STEPS, 20_000 in the source); only the pitch columns of   *)
(* PitchCols are represented, every other column stays Off because no      *)
(* record of the model names another pitch below MAX_PITCHES.              *)
(***************************************************************************)
MAX_TIME_STEPS == 5
D_MAX_TIME_STEPS == 3
MaxLines == 3
MaxMelody == 4
MaxStreamLen == 4

PitchCols == <<23, 24, 28, 109>>
PitchSet == {PitchCols[i] : i \in 1..Len(PitchCols)}
Steps == 0..(MAX_TIME_STEPS - 1)
Transpositions == -6..5

(***************************************************************************)
(* Parsing.  IntLit is the table of the integer literals the model's       *)
(* records use; FloatLit holds the literals that parse as f32 only.        *)
(***************************************************************************)
IntLit ==
  ("0" :> 0) @@ ("1" :> 1) @@ ("2" :> 2) @@ ("9" :> 9) @@ ("10" :> 10) @@
  ("23" :> 23) @@ ("24" :> 24) @@ ("28" :> 28) @@ ("40" :> 40) @@
  ("80" :> 80) @@ ("100" :> 100) @@ ("109" :> 109) @@ ("110" :> 110) @@
  ("120" :> 120) @@ ("160" :> 160) @@ ("384" :> 384) @@
  ("100000" :> 100000) @@ ("500000" :> 500000) @@ ("-1" :> -1)

FloatLit == ("40.0" :> 40)

Err == [ok |-> FALSE, v |-> 0]
Ok(x) == [ok |-> TRUE, v |-> x]

\* str::parse::<i32>()
parse_i32(s) == IF s \in DOMAIN IntLit THEN Ok(IntLit[s]) ELSE Err

\* str::parse::<usize>(): a sign or a non-digit is an error
parse_usize(s) ==
  IF s \in DOMAIN IntLit /\ IntLit[s] >= 0 THEN Ok(IntLit[s]) ELSE Err

\* str::parse::<f32>(): integer and decimal literals
parse_f32(s) ==
  IF s \in DOMAIN IntLit THEN Ok(IntLit[s])
  ELSE IF s \in DOMAIN FloatLit THEN Ok(FloatLit[s])
  ELSE Err

\* The fields of the model that hold a double quote: str::contains('"')
QuotedTokens == {"\"Text\"", "\"a", "d\"", "\"x\"", "\"Main Track\""}
contains_quote(s) == s \in QuotedTokens

(***************************************************************************)
(* f32 quantum.  The value (50_000.0 / tempo) * division is kept as the    *)
(* exact fraction num/den (the literals of the model make the f32          *)
(* operations exact); den = 0 stands for the IEEE results of a division    *)
(* by zero: num > 0 is +inf, num < 0 is -inf, num = 0 is NaN.              *)
(***************************************************************************)
Quantum(num, den) ==
  IF den < 0 THEN [num |-> -num, den |-> -den] ELSE [num |-> num, den |-> den]

InitialQuantum == Quantum(DEFAULT_QUANTUM, 1)

\* (time / self.time_quantum) as usize: the cast truncates toward zero,
\* saturates, and maps NaN to 0.  The saturated value usize::MAX is beyond
\* every matrix; it is represented by MAX_TIME_STEPS, the least such step.
TimeStep(time, q) ==
  IF q.den = 0 THEN 0                       \* x/inf = 0, x/NaN = NaN
  ELSE IF q.num = 0                         \* x/0 = +inf, 0/0 = NaN, -x/0 = -inf
    THEN IF time > 0 THEN MAX_TIME_STEPS ELSE 0
  ELSE IF (time >= 0) # (q.num > 0) THEN 0  \* negative quotient
  ELSE IF time >= 0 THEN (time * q.den) \div q.num
  ELSE ((-time) * q.den) \div (-q.num)

(***************************************************************************)
(* State.                                                                  *)
(*   note_matrix, time_quantum, allowed_channels: the MidiProcessor        *)
(*   pc:      "idle" (no file processed yet), "reading" (inside the line   *)
(*            loop of process_file), "done" (process_file has returned),   *)
(*            "panicked" (the process died on a panic)                     *)
(*   lines:   the lines of the current file read so far                    *)
(*   streams: the 12 output files of the current file, by transposition    *)
(*   d_note_matrix, current_time_step: the MidiDecompressor                *)
(*   dpc:     "new", "loaded", "written", "panicked", "failed" (load      *)
(*            returned an Err, main goes on to the next file), "exited"    *)
(*            (main returned the Err of generate_midi_csv)                 *)
(*   cary:    the Cary stream given to load_compressed_file                *)
(*   csv:     the note records written by write_note_events                *)
(***************************************************************************)
VARIABLES note_matrix, time_quantum, allowed_channels, pc, lines, streams,
          d_note_matrix, current_time_step, dpc, cary, csv

enc_vars == <<note_matrix, time_quantum, allowed_channels, pc, lines, streams>>
dec_vars == <<d_note_matrix, current_time_step, dpc, cary, csv>>
vars == <<note_matrix, time_quantum, allowed_channels, pc, lines, streams,
          d_note_matrix, current_time_step, dpc, cary, csv>>

Channels == 0..(NUM_CHANNELS - 1)

\* vec![[NoteState::Off; MAX_PITCHES]; MAX_TIME_STEPS]
EmptyMatrix == [t \in Steps |-> [p \in PitchSet |-> "Off"]]

\* [true; 128]
AllAllowed == [c \in Channels |-> TRUE]

NoStreams == [tr \in Transpositions |-> <<>>]

(***************************************************************************)
(* MidiProcessor: the three per-line handlers.                             *)
(***************************************************************************)
\* process_tempo_change: the new quantum
process_tempo_change(parts, q) ==
  IF Len(parts) >= 6 /\ parts[3] = "Tempo"
    THEN LET tempo == parse_f32(parts[4])
             division == parse_f32(parts[6])
         IN IF tempo.ok /\ division.ok
              THEN Quantum(TEMPO_SCALE * division.v, tempo.v)
              ELSE q
    ELSE q

\* mutant of process_instrument_change: the allow-set is never narrowed
process_instrument_change_ignored(parts, allowed) ==
  [panic |-> FALSE, allowed |-> allowed]

\* mutant of process_instrument_change: a channel once closed stays closed
process_instrument_change_sticky(parts, allowed) ==
  IF Len(parts) >= 5 /\ parts[3] = "Program_c"
    THEN LET channel == parse_usize(parts[4])
             instrument == parse_i32(parts[5])
         IN IF channel.ok /\ instrument.ok /\ channel.v \in Channels
              THEN [panic |-> FALSE,
                    allowed |-> [allowed EXCEPT ![channel.v] =
                                   @ /\ (instrument.v >= 0 /\ instrument.v <= 7)]]
              ELSE [panic |-> FALSE, allowed |-> allowed]
    ELSE [panic |-> FALSE, allowed |-> allowed]

\* process_instrument_change: the new allow-set, or a panic on
\* allowed_channels[channel] with channel >= 128
process_instrument_change(parts, allowed) ==
  IF Len(parts) >= 5 /\ parts[3] = "Program_c"
    THEN LET channel == parse_usize(parts[4])
             instrument == parse_i32(parts[5])
         IN IF channel.ok /\ instrument.ok
              THEN IF channel.v \in Channels
                     THEN [panic |-> FALSE,
                           allowed |-> [allowed EXCEPT ![channel.v] =
                                          (instrument.v >= 0 /\ instrument.v <= 7)]]
                     ELSE [panic |-> TRUE, allowed |-> allowed]
              ELSE [panic |-> FALSE, allowed |-> allowed]
    ELSE [panic |-> FALSE, allowed |-> allowed]

\* handle_note_on
handle_note_on(m, time, pitch) ==
  IF m[time][pitch] = "Off" THEN [m EXCEPT ![time][pitch] = "On"] ELSE m

\* the while loop of handle_note_off: the step the backward scan stops at
RECURSIVE ScanBack(_, _, _)
ScanBack(m, t, pitch) ==
  IF t > 0 /\ m[t][pitch] # "On" THEN ScanBack(m, t - 1, pitch) ELSE t

\* usize::saturating_sub(1)
saturating_sub1(t) == IF t > 0 THEN t - 1 ELSE 0

\* mutant of handle_note_off: the step of the Note-off is sustained too
handle_note_off_inclusive(m, time, pitch) ==
  LET last_on_time == ScanBack(m, saturating_sub1(time), pitch)
  IN IF m[last_on_time][pitch] = "On"
       THEN [t \in Steps |->
              IF t >= last_on_time /\ t <= time /\ m[t][pitch] = "Off"
                THEN [m[t] EXCEPT ![pitch] = "Sustained"]
                ELSE m[t]]
       ELSE m

\* mutant of handle_note_off: the step the scan stops at is not checked
handle_note_off_unchecked(m, time, pitch) ==
  LET last_on_time == ScanBack(m, saturating_sub1(time), pitch)
  IN [t \in Steps |->
       IF t >= last_on_time /\ t < time /\ m[t][pitch] = "Off"
         THEN [m[t] EXCEPT ![pitch] = "Sustained"]
         ELSE m[t]]

\* handle_note_off
handle_note_off(m, time, pitch) ==
  LET last_on_time == ScanBack(m, saturating_sub1(time), pitch)
  IN IF m[last_on_time][pitch] = "On"
       THEN [t \in Steps |->
              IF t >= last_on_time /\ t < time /\ m[t][pitch] = "Off"
                THEN [m[t] EXCEPT ![pitch] = "Sustained"]
                ELSE m[t]]
       ELSE m

\* mutant of dispatch_note: a Note_on_c of velocity 0 is a Note-on
dispatch_note_zero_on(m, event_type, velocity, time_step, pitch) ==
  IF pitch \notin PitchSet THEN m
  ELSE IF event_type = "Note_on_c" /\ velocity >= 0
    THEN handle_note_on(m, time_step, pitch)
  ELSE IF event_type = "Note_off_c"
    THEN handle_note_off(m, time_step, pitch)
  ELSE m

\* the match of process_note_event on (event_type, velocity)
dispatch_note(m, event_type, velocity, time_step, pitch) ==
  IF pitch \notin PitchSet THEN m      \* a column the model does not hold
  ELSE IF event_type = "Note_on_c" /\ velocity >= 1
    THEN handle_note_on(m, time_step, pitch)
  ELSE IF (event_type = "Note_on_c" /\ velocity = 0) \/ event_type = "Note_off_c"
    THEN handle_note_off(m, time_step, pitch)
  ELSE m

Kept(m) == [panic |-> FALSE, m |-> m]
Panic(m) == [panic |-> TRUE, m |-> m]

\* process_note_event: the new matrix, or a panic (an unwrap of a failed
\* parse, or allowed_channels[channel] out of bounds)
process_note_event(parts, m, allowed, q) ==
  IF Len(parts) < 6 \/ contains_quote(parts[3]) THEN Kept(m)
  ELSE
    LET track == parse_i32(parts[1])
        channel == parse_usize(parts[4])
    IN IF ~track.ok \/ ~channel.ok THEN Panic(m)
       ELSE IF channel.v \notin Channels THEN Panic(m)
       ELSE IF ~allowed[channel.v] \/ track.v > MAX_TRACK THEN Kept(m)
       ELSE
         LET time == parse_f32(parts[2])
             pitch == parse_usize(parts[5])
             velocity == parse_i32(parts[6])
         IN IF ~time.ok \/ ~pitch.ok \/ ~velocity.ok THEN Panic(m)
            ELSE LET time_step == TimeStep(time.v, q)
                 IN IF time_step >= MAX_TIME_STEPS \/ pitch.v >= MAX_PITCHES
                      THEN Kept(m)
                      ELSE Kept(dispatch_note(m, parts[3], velocity.v,
                                              time_step, pitch.v))

(***************************************************************************)
(* generate_output_files.                                                  *)
(***************************************************************************)
\* mutant of line_glyphs: the lower end of the printable band is excluded
RECURSIVE line_glyphs_strict(_, _, _)
line_glyphs_strict(notes, transposition, i) ==
  IF i > Len(PitchCols) THEN <<>>
  ELSE LET pitch == PitchCols[i]
           ascii_code == GLYPH_LO + (pitch - MIN_PITCH + transposition)
           rest == line_glyphs_strict(notes, transposition, i + 1)
       IN IF pitch >= SKIP_PITCHES /\ notes[pitch] # "Off"
             /\ ascii_code > GLYPH_LO /\ ascii_code <= GLYPH_HI
            THEN <<ascii_code>> \o rest
            ELSE rest

\* mutant of line_glyphs: the glyphs are pushed from the highest pitch down
RECURSIVE line_glyphs_descending(_, _, _)
line_glyphs_descending(notes, transposition, i) ==
  IF i > Len(PitchCols) THEN <<>>
  ELSE LET pitch == PitchCols[i]
           ascii_code == GLYPH_LO + (pitch - MIN_PITCH + transposition)
           rest == line_glyphs_descending(notes, transposition, i + 1)
       IN IF pitch >= SKIP_PITCHES /\ notes[pitch] # "Off"
             /\ ascii_code >= GLYPH_LO /\ ascii_code <= GLYPH_HI
            THEN rest \o <<ascii_code>>
            ELSE rest

\* the inner loop over notes.iter().enumerate().skip(24), from column i of
\* PitchCols on: the glyphs pushed to output_line
RECURSIVE line_glyphs(_, _, _)
line_glyphs(notes, transposition, i) ==
  IF i > Len(PitchCols) THEN <<>>
  ELSE LET pitch == PitchCols[i]
           ascii_code == GLYPH_LO + (pitch - MIN_PITCH + transposition)
           rest == line_glyphs(notes, transposition, i + 1)
       IN IF pitch >= SKIP_PITCHES /\ notes[pitch] # "Off"
             /\ ascii_code >= GLYPH_LO /\ ascii_code <= GLYPH_HI
            THEN <<ascii_code>> \o rest
            ELSE rest

\* mutant of add_formatting: the delimiter is never pushed
add_formatting_never(output_line) == output_line

\* mutant of add_formatting: the delimiter is pushed after every line
add_formatting_always(output_line) == Append(output_line, SPACE)

\* "Add formatting": the space pushed after a non-empty line
add_formatting(output_line) ==
  IF output_line # <<>> THEN Append(output_line, SPACE) ELSE output_line

\* output_line as written for one time step
output_line(notes, transposition) ==
  add_formatting(line_glyphs(notes, transposition, 1))

\* the loop over self.note_matrix.iter(): the file of one transposition
RECURSIVE output_file(_, _, _)
output_file(m, transposition, t) ==
  IF t >= MAX_TIME_STEPS THEN <<>>
  ELSE output_line(m[t], transposition) \o output_file(m, transposition, t + 1)

\* mutant of generate_output_files: the files of the downward transpositions
\* are written from the second row of the matrix on
generate_output_files_skewed(m) ==
  [transposition \in Transpositions |->
     output_file(m, transposition, IF transposition < 0 THEN 1 ELSE 0)]

generate_output_files(m) ==
  [transposition \in Transpositions |-> output_file(m, transposition, 0)]

(***************************************************************************)
(* MidiDecompressor.  A row [bool; PITCH_RANGE] of its matrix is kept as   *)
(* the set of the pitch indices that are true.                             *)
(***************************************************************************)
D_Steps == 0..(D_MAX_TIME_STEPS - 1)

\* vec![[false; PITCH_RANGE]; MAX_TIME_STEPS]
D_EmptyMatrix == [t \in D_Steps |-> {}]

Loaded(m, step, panic) == [m |-> m, step |-> step, panic |-> panic]

\* mutant of process_note_char: the pitch is set in row 0, not at the cursor
process_note_char_row0(st, c) ==
  LET pitch == c - 32 - 1
  IN IF pitch >= 0 /\ pitch < PITCH_RANGE
       THEN Loaded([st.m EXCEPT ![0] = @ \cup {pitch}], st.step, FALSE)
       ELSE st

\* process_note_char at cursor `step`; indexing the matrix at a step beyond
\* its rows panics
process_note_char(st, c) ==
  LET pitch == c - 32 - 1
  IN IF pitch >= 0 /\ pitch < PITCH_RANGE
       THEN IF st.step \in D_Steps
              THEN Loaded([st.m EXCEPT ![st.step] = @ \cup {pitch}], st.step, FALSE)
              ELSE Loaded(st.m, st.step, TRUE)
       ELSE st

\* process_compressed_line from character i on
RECURSIVE process_compressed_line(_, _, _)
process_compressed_line(st, line, i) ==
  IF st.panic \/ i > Len(line) THEN st
  ELSE IF line[i] = SPACE
    THEN process_compressed_line(Loaded(st.m, st.step + 1, FALSE), line, i + 1)
    ELSE process_compressed_line(process_note_char(st, line[i]), line, i + 1)

\* mutant of d_reset_state: the cursor is reset, the matrix is not cleared
d_reset_state_keep(m) == Loaded(m, 0, FALSE)

\* MidiDecompressor::reset_state
d_reset_state(m) == Loaded([t \in DOMAIN m |-> {}], 0, FALSE)

\* load_compressed_file on a stream of one line
load_result(m, stream) ==
  LET st == process_compressed_line(d_reset_state(m), stream, 1)
  IN IF st.panic THEN st ELSE Loaded(st.m, st.step + 1, FALSE)

NoteOn(time, pitch) ==
  [track |-> 2, time |-> time * TIME_QUANTUM, kind |-> "Note_on_c",
   channel |-> 1, note |-> pitch + MIDI_BASE, velocity |-> VELOCITY_ON]

NoteOff(time, pitch) ==
  [track |-> 2, time |-> time * TIME_QUANTUM, kind |-> "Note_off_c",
   channel |-> 1, note |-> pitch + MIDI_BASE, velocity |-> 0]

\* mutant of step_events: a Note-on is written at every step a pitch is
\* true, not only at the step it becomes true
RECURSIVE step_events_level(_, _, _)
step_events_level(m, time, pitch) ==
  LET previous_row == IF time > 0 THEN m[time - 1] ELSE {}
      pending == {p \in m[time] \cup previous_row : p >= pitch /\ p < PITCH_RANGE}
  IN IF pending = {} THEN <<>>
     ELSE LET p == CHOOSE x \in pending : \A y \in pending : x <= y
              rest == step_events_level(m, time, p + 1)
          IN IF p \in m[time] THEN <<NoteOn(time, p)>> \o rest
             ELSE <<NoteOff(time, p)>> \o rest

\* the inner loop of write_note_events at step `time`, from `pitch` on.
\* A pitch that is false at this step and at the one before writes nothing,
\* so the loop is taken from one such pitch to the next that is true at
\* either step.
RECURSIVE step_events(_, _, _)
step_events(m, time, pitch) ==
  LET previous_row == IF time > 0 THEN m[time - 1] ELSE {}
      pending == {p \in m[time] \cup previous_row : p >= pitch /\ p < PITCH_RANGE}
  IN IF pending = {} THEN <<>>
     ELSE LET p == CHOOSE x \in pending : \A y \in pending : x <= y
              current_note == p \in m[time]
              previous_note == time > 0 /\ p \in m[time - 1]
              rest == step_events(m, time, p + 1)
          IN IF current_note /\ ~previous_note THEN <<NoteOn(time, p)>> \o rest
             ELSE IF ~current_note /\ previous_note THEN <<NoteOff(time, p)>> \o rest
             ELSE rest

Written(events, panic) == [events |-> events, panic |-> panic]

\* write_note_events from step `time` on; reading a row beyond the matrix
\* panics, the records written before it stay written
RECURSIVE write_note_events(_, _, _)
write_note_events(m, cursor, time) ==
  IF time >= cursor THEN Written(<<>>, FALSE)
  ELSE IF time \notin DOMAIN m THEN Written(<<>>, TRUE)
  ELSE LET rest == write_note_events(m, cursor, time + 1)
       IN Written(step_events(m, time, 0) \o rest.events, rest.panic)

\* load_compressed_file
load_compressed_file(stream) ==
  /\ dpc \in {"new", "written", "failed"}
  /\ LET st == load_result(d_note_matrix, stream)
     IN /\ d_note_matrix' = st.m
        /\ current_time_step' = st.step
        /\ dpc' = IF st.panic THEN "panicked" ELSE "loaded"
  /\ cary' = stream
  /\ csv' = <<>>
  /\ UNCHANGED enc_vars

\* generate_midi_csv
generate_midi_csv ==
  /\ dpc = "loaded"
  /\ LET w == write_note_events(d_note_matrix, current_time_step, 0)
     IN /\ csv' = w.events
        /\ dpc' = IF w.panic THEN "panicked" ELSE "written"
  /\ UNCHANGED <<d_note_matrix, current_time_step, cary, enc_vars>>

(***************************************************************************)
(* The records a line of the model's event logs may hold.                  *)
(***************************************************************************)
Note(track, time, kind, channel, pitch, velocity) ==
  <<track, time, kind, channel, pitch, velocity>>

NoteRecords ==
  { Note("1", "0", "Note_on_c", "0", "24", "100"),
    Note("1", "40", "Note_on_c", "0", "24", "100"),
    Note("1", "0", "Note_off_c", "0", "24", "0"),
    Note("1", "40", "Note_off_c", "0", "24", "0"),
    Note("1", "120", "Note_off_c", "0", "24", "0"),
    Note("1", "40", "Note_on_c", "0", "109", "100"),
    Note("1", "0", "Note_on_c", "0", "23", "100"),
    Note("1", "120", "Note_on_c", "0", "24", "0"),
    Note("1", "0", "Note_on_c", "0", "24", "-1"),
    Note("9", "0", "Note_on_c", "0", "24", "100"),
    Note("1", "100000", "Note_on_c", "0", "24", "100"),
    Note("1", "0", "Note_on_c", "0", "110", "100") }

ControlRecords ==
  { <<"1", "0", "Program_c", "0", "40">>,
    <<"1", "0", "Program_c", "0", "0">>,
    <<"1", "0", "Tempo", "100", "0", "2">>,
    <<"1", "0", "Tempo", "500000", "0", "384">>,
    <<"1", "0", "Start_track">> }

MalformedRecords ==
  { Note("x", "0", "Note_on_c", "0", "24", "100"),
    Note("1", "0", "Note_on_c", "0", "x", "100"),
    <<"1", "0", "Program_c", "0", "x">> }

QuotedRecords ==
  { <<"2", "0", "\"Text\"", "0", "24", "100">>,
    <<"2", "0", "Title_t", "\"Main Track\"">>,
    <<"2", "0", "Text_t", "\"a", "b", "c", "d\"">>,
    <<"1", "0", "Note_on_c", "0", "24", "100", "\"x\"">> }

Records == NoteRecords \cup ControlRecords \cup MalformedRecords \cup QuotedRecords

(***************************************************************************)
(* MidiProcessor: process_file, one action per position.                   *)
(***************************************************************************)
Init ==
  /\ note_matrix = EmptyMatrix
  /\ time_quantum = InitialQuantum
  /\ allowed_channels = AllAllowed
  /\ pc = "idle"
  /\ lines = <<>>
  /\ streams = NoStreams
  /\ d_note_matrix = D_EmptyMatrix
  /\ current_time_step = 0
  /\ dpc = "new"
  /\ cary = <<>>
  /\ csv = <<>>

\* reset_state: time_quantum is not among the fields it assigns
reset_state_allowed == AllAllowed
reset_state_matrix == EmptyMatrix
reset_state_quantum(q) == q

\* process_file up to the line loop: reset_state, the file is opened
process_file ==
  /\ pc \in {"idle", "done"}
  /\ allowed_channels' = reset_state_allowed
  /\ note_matrix' = reset_state_matrix
  /\ time_quantum' = reset_state_quantum(time_quantum)
  /\ lines' = <<>>
  /\ streams' = NoStreams
  /\ pc' = "reading"
  /\ UNCHANGED dec_vars

\* one iteration of `for line in reader.lines()`
process_line(parts) ==
  /\ pc = "reading"
  /\ lines' = Append(lines, parts)
  /\ LET q == process_tempo_change(parts, time_quantum)
         ic == process_instrument_change(parts, allowed_channels)
         ne == process_note_event(parts, note_matrix, ic.allowed, q)
     IN /\ time_quantum' = q
        /\ allowed_channels' = ic.allowed
        /\ note_matrix' = IF ic.panic THEN note_matrix ELSE ne.m
        /\ pc' = IF ic.panic \/ ne.panic THEN "panicked" ELSE "reading"
  /\ UNCHANGED <<streams, dec_vars>>

\* the end of the file: generate_output_files, process_file returns
end_of_file ==
  /\ pc = "reading"
  /\ streams' = generate_output_files(note_matrix)
  /\ pc' = "done"
  /\ UNCHANGED <<note_matrix, time_quantum, allowed_channels, lines, dec_vars>>

\* the line loop over the event logs of the model, MaxLines lines at most
read_line(parts) ==
  /\ Len(lines) < MaxLines
  /\ process_line(parts)

Next ==
  \/ process_file
  \/ \E parts \in Records : read_line(parts)
  \/ end_of_file

Spec == Init /\ [][Next]_vars

(***************************************************************************)
(* The decompressor alone, on every Cary stream of MaxStreamLen characters *)
(* at most over Alphabet: the space, '#' and ''' (pitch indices 2 and 6) and  *)
(* 'x' (pitch index 87, beyond PITCH_RANGE).                               *)
(***************************************************************************)
Alphabet == {SPACE, 35, 39, 120}

RECURSIVE SeqsUpTo(_, _)
SeqsUpTo(S, n) ==
  IF n = 0 THEN {<<>>}
  ELSE LET shorter == SeqsUpTo(S, n - 1)
       IN shorter \cup {Append(q, x) : q \in {r \in shorter : Len(r) = n - 1}, x \in S}

CaryStreams == SeqsUpTo(Alphabet, MaxStreamLen)

NextDec ==
  \/ \E stream \in CaryStreams : load_compressed_file(stream)
  \/ generate_midi_csv

SpecDec == Init /\ [][NextDec]_vars

(***************************************************************************)
(* The round trip: the compressor on a melody (a log of Note_on_c and      *)
(* Note_off_c records, each note's on followed by its off at a later       *)
(* tick), then the decompressor on the stream of transposition 0.          *)
(***************************************************************************)
MelodyTicks == {"0", "10", "40", "80", "120", "160"}
MelodyPitches == {"23", "24", "28", "109"}

MelodyRecords ==
  {Note("1", t, "Note_on_c", "0", p, "100") : t \in MelodyTicks, p \in MelodyPitches}
  \cup {Note("1", t, "Note_off_c", "0", p, "0") : t \in MelodyTicks, p \in MelodyPitches}

\* the log `log` followed by `parts` is still the beginning of a melody
ExtendsMelody(log, parts) ==
  IF Len(log) % 2 = 0
    THEN /\ parts[3] = "Note_on_c"
         /\ Len(log) > 0 => IntLit[log[Len(log)][2]] <= IntLit[parts[2]]
    ELSE /\ parts[3] = "Note_off_c"
         /\ parts[5] = log[Len(log)][5]
         /\ IntLit[log[Len(log)][2]] < IntLit[parts[2]]

melody_process_file ==
  /\ pc = "idle"
  /\ process_file

melody_read_line(parts) ==
  /\ Len(lines) < MaxMelody
  /\ ExtendsMelody(lines, parts)
  /\ process_line(parts)

melody_end_of_file ==
  /\ Len(lines) % 2 = 0
  /\ end_of_file

decode_transposition_0 ==
  /\ pc = "done"
  /\ dpc = "new"
  /\ load_compressed_file(streams[0])

NextRT ==
  \/ melody_process_file
  \/ \E parts \in MelodyRecords : melody_read_line(parts)
  \/ melody_end_of_file
  \/ decode_transposition_0
  \/ generate_midi_csv

SpecRT == Init /\ [][NextRT]_vars

(***************************************************************************)
(* The compressor on logs of Note-on and Note-off records of one pitch at  *)
(* the ticks of steps 0 to 4, in any order.                                *)
(***************************************************************************)
SustainTicks == {"0", "40", "80", "120", "160"}

SustainRecords ==
  {Note("1", t, "Note_on_c", "0", "24", "100") : t \in SustainTicks}
  \cup {Note("1", t, "Note_off_c", "0", "24", "0") : t \in SustainTicks}

NextSustain ==
  \/ process_file
  \/ \E parts \in SustainRecords : read_line(parts)
  \/ end_of_file

SpecSustain == Init /\ [][NextSustain]_vars

(***************************************************************************)
(* The two batches with failing file operations: the compressor on logs    *)
(* of IORecords, and the decompressor on the streams the compressor has    *)
(* written (its output directory is the decompressor's input directory).   *)
(***************************************************************************)
IORecords ==
  { Note("1", "0", "Note_on_c", "0", "24", "100"),
    Note("1", "40", "Note_on_c", "0", "109", "100") }

\* process_file: File::open(..).expect(..) panics after reset_state
open_input_fails ==
  /\ pc \in {"idle", "done"}
  /\ allowed_channels' = reset_state_allowed
  /\ note_matrix' = reset_state_matrix
  /\ time_quantum' = reset_state_quantum(time_quantum)
  /\ lines' = <<>>
  /\ streams' = NoStreams
  /\ pc' = "panicked"
  /\ UNCHANGED dec_vars

\* the line loop: line.expect(..) panics
read_line_fails ==
  /\ pc = "reading"
  /\ pc' = "panicked"
  /\ UNCHANGED <<note_matrix, time_quantum, allowed_channels, lines, streams,
                 dec_vars>>

\* generate_output_files: File::create(..).expect(..) or write!(..).unwrap()
\* panics at transposition k, the files of the transpositions before it
\* are written
create_output_fails(k) ==
  /\ pc = "reading"
  /\ streams' = [transposition \in Transpositions |->
                   IF transposition < k
                     THEN output_file(note_matrix, transposition, 0)
                     ELSE <<>>]
  /\ pc' = "panicked"
  /\ UNCHANGED <<note_matrix, time_quantum, allowed_channels, lines, dec_vars>>

\* main of the decompressor on the file of transposition tr
load_cary_file(transposition) ==
  /\ pc = "done"
  /\ load_compressed_file(streams[transposition])

\* load_compressed_file: File::open(..)? or line? returns the Err after
\* reset_state; main reports it and goes on
load_compressed_file_fails ==
  /\ dpc \in {"new", "written", "failed"}
  /\ LET st == d_reset_state(d_note_matrix)
     IN /\ d_note_matrix' = st.m
        /\ current_time_step' = st.step
  /\ dpc' = "failed"
  /\ cary' = <<>>
  /\ csv' = <<>>
  /\ UNCHANGED enc_vars

\* generate_midi_csv: File::create(..)? returns the Err, and main returns
\* it with `?`
generate_midi_csv_fails ==
  /\ dpc = "loaded"
  /\ csv' = <<>>
  /\ dpc' = "exited"
  /\ UNCHANGED <<d_note_matrix, current_time_step, cary, enc_vars>>

NextIO ==
  \/ process_file
  \/ \E parts \in IORecords : read_line(parts)
  \/ end_of_file
  \/ open_input_fails
  \/ read_line_fails
  \/ \E k \in Transpositions : create_output_fails(k)
  \/ \E transposition \in Transpositions : load_cary_file(transposition)
  \/ load_compressed_file_fails
  \/ generate_midi_csv
  \/ generate_midi_csv_fails

SpecIO == Init /\ [][NextIO]_vars

(***************************************************************************)
(* Properties.                                                             *)
(***************************************************************************)
IsGlyph(c) == c # SPACE
Glyphs(stream) == SelectSeq(stream, IsGlyph)
NumDelimiters(stream) == Len(stream) - Len(Glyphs(stream))

RECURSIVE Sum(_, _)
Sum(f, S) ==
  IF S = {} THEN 0
  ELSE LET x == CHOOSE y \in S : TRUE IN f[x] + Sum(f, S \ {x})

(***************************************************************************)
(* C1.  Round trip of a melody: notes i = 1..NumNotes, note i read as the  *)
(* records 2i-1 (its Note_on_c) and 2i (its Note_off_c) of the log.        *)
(***************************************************************************)
NumNotes == Len(lines) \div 2
NoteIds == 1..NumNotes
NotePitch(i) == IntLit[lines[2 * i - 1][5]]
OnTick(i) == IntLit[lines[2 * i - 1][2]]
OffTick(i) == IntLit[lines[2 * i][2]]
OnStep(i) == TimeStep(OnTick(i), time_quantum)
OffStep(i) == TimeStep(OffTick(i), time_quantum)

DistinctPitches == \A i, j \in NoteIds : i # j => NotePitch(i) # NotePitch(j)
NonOverlappingTicks == \A i, j \in NoteIds : i < j => OffTick(i) <= OnTick(j)
NonOverlappingSteps ==
  /\ \A i \in NoteIds : OnStep(i) < OffStep(i) /\ OffStep(i) < MAX_TIME_STEPS
  /\ \A i, j \in NoteIds : i < j => OffStep(i) <= OnStep(j)
SoundingSteps == Sum([i \in NoteIds |-> OffStep(i) - OnStep(i)], NoteIds)

IsOnRecord(e) == e.kind = "Note_on_c"
IsOffRecord(e) == e.kind = "Note_off_c"
CsvOns == SelectSeq(csv, IsOnRecord)
CsvOffs == SelectSeq(csv, IsOffRecord)

\* the decoded schedule has the notes of the log, in the log's order
SameNotesSameOrder ==
  /\ dpc = "written"
  /\ Len(CsvOns) = NumNotes
  /\ Len(CsvOffs) = NumNotes
  /\ \A i, j \in NoteIds :
       /\ (NotePitch(i) < NotePitch(j)) <=> (CsvOns[i].note < CsvOns[j].note)
       /\ i < j => CsvOns[i].time <= CsvOns[j].time

RoundTripDone == pc = "done" /\ dpc \in {"written", "panicked"}

\* C1 as claimed: every melody with non-overlapping [on,off) tick intervals
\* on distinct pitches for which the decoder writes a schedule decodes to
\* the same number of notes in the same order.
C1_Original ==
  (pc = "done" /\ dpc = "written" /\ DistinctPitches /\ NonOverlappingTicks)
  => SameNotesSameOrder

\* C1 as amended: the same, for melodies whose pitches lie in [24, 108],
\* whose intervals are non-empty and non-overlapping in quantized steps
\* inside the encoder's matrix, and that sound for fewer steps in total than
\* the decoder's matrix has rows.
C1_RoundTrip ==
  (/\ RoundTripDone
   /\ DistinctPitches
   /\ \A i \in NoteIds : NotePitch(i) >= SKIP_PITCHES
                         /\ NotePitch(i) - MIN_PITCH < PITCH_RANGE
   /\ NonOverlappingSteps
   /\ SoundingSteps < D_MAX_TIME_STEPS)
  => SameNotesSameOrder

\* C1 witness: two notes, the later one on the lower pitch, written back as
\* two Note-on and two Note-off records
C1_Witness ==
  /\ RoundTripDone
  /\ NumNotes = 2
  /\ NotePitch(1) = 28 /\ NotePitch(2) = 24
  /\ NonOverlappingSteps
  /\ SoundingSteps < D_MAX_TIME_STEPS
  /\ csv = <<NoteOn(0, 6), NoteOn(1, 2), NoteOff(1, 6), NoteOff(2, 2)>>

(***************************************************************************)
(* The line a step of the line loop reads, and what it is.                 *)
(***************************************************************************)
ReadStep == pc = "reading" /\ Len(lines') = Len(lines) + 1
Line == lines'[Len(lines')]
LastLine == lines[Len(lines)]

\* a record whose five numeric fields all parse
WellFormedNote(parts) ==
  /\ Len(parts) >= 6
  /\ ~contains_quote(parts[3])
  /\ parse_i32(parts[1]).ok
  /\ parse_f32(parts[2]).ok
  /\ parse_usize(parts[4]).ok
  /\ parse_usize(parts[5]).ok
  /\ parse_i32(parts[6]).ok

LineStep(parts) == TimeStep(parse_f32(parts[2]).v, time_quantum)
LinePitch(parts) == parse_usize(parts[5]).v

\* a note record that reaches the matrix in the current state
Admitted(parts) ==
  /\ WellFormedNote(parts)
  /\ parse_usize(parts[4]).v \in Channels
  /\ allowed_channels[parse_usize(parts[4]).v]
  /\ parse_i32(parts[1]).v <= MAX_TRACK
  /\ LineStep(parts) < MAX_TIME_STEPS
  /\ LinePitch(parts) \in PitchSet

IsOn(parts) == parts[3] = "Note_on_c" /\ parse_i32(parts[6]).v >= 1
IsOff(parts) ==
  \/ parts[3] = "Note_off_c"
  \/ parts[3] = "Note_on_c" /\ parse_i32(parts[6]).v = 0

Column(m, p) == [t \in Steps |-> m[t][p]]
AllOff == [t \in Steps |-> "Off"]
OnlyOnAt(s) == [t \in Steps |-> IF t = s THEN "On" ELSE "Off"]
Sounding(s, e) ==
  [t \in Steps |-> IF t = s THEN "On"
                   ELSE IF s < t /\ t < e THEN "Sustained" ELSE "Off"]

(***************************************************************************)
(* C2.  Sustain reconstruction.                                            *)
(***************************************************************************)
\* C2: on a pitch column that is all Off, a Note-on at step s leaves exactly
\* step s On, and a Note-off at a step e > s read next (the column being
\* just that) leaves s On, the steps of (s, e) Sustained and every other
\* step Off.
C2_SustainReconstruction ==
  [][(ReadStep /\ Admitted(Line)) =>
       LET p == LinePitch(Line)
           t == LineStep(Line)
       IN /\ (IsOn(Line) /\ Column(note_matrix, p) = AllOff)
               => Column(note_matrix', p) = OnlyOnAt(t)
          /\ \A s \in Steps :
               (IsOff(Line) /\ s < t /\ Column(note_matrix, p) = OnlyOnAt(s))
                 => Column(note_matrix', p) = Sounding(s, t)]_vars

\* C2 witness: Note-on at step 1 then Note-off at step 3 on pitch 24: step 1
\* is On, step 2 Sustained, steps 0, 3 and 4 Off
C2_Witness ==
  /\ pc = "reading"
  /\ Len(lines) = 2
  /\ IsOn(lines[1]) /\ LineStep(lines[1]) = 1 /\ LinePitch(lines[1]) = 24
  /\ IsOff(lines[2]) /\ LineStep(lines[2]) = 3 /\ LinePitch(lines[2]) = 24
  /\ Column(note_matrix, 24) = Sounding(1, 3)
  /\ note_matrix[2][24] = "Sustained"

(***************************************************************************)
(* C3.  Unmatched Note-off.                                                *)
(***************************************************************************)
NoOnBefore(m, p, t) == \A s \in Steps : s < t => m[s][p] # "On"

\* C3: a Note-off at step t for a pitch with no On cell before t changes
\* nothing and the line loop goes on.
C3_UnmatchedOffNoOp ==
  [][(ReadStep /\ Admitted(Line) /\ IsOff(Line)
      /\ NoOnBefore(note_matrix, LinePitch(Line), LineStep(Line)))
     => /\ note_matrix' = note_matrix
        /\ time_quantum' = time_quantum
        /\ allowed_channels' = allowed_channels
        /\ pc' = "reading"]_vars

\* C3 witness: the Note-off at step 1 of pitch 24 was read with the only On
\* of the column at step 1 itself, and the column is as it was
C3_Witness ==
  /\ pc = "reading"
  /\ Len(lines) = 2
  /\ IsOn(lines[1]) /\ LineStep(lines[1]) = 1 /\ LinePitch(lines[1]) = 24
  /\ Admitted(LastLine) /\ IsOff(LastLine)
  /\ LineStep(LastLine) = 1 /\ LinePitch(LastLine) = 24
  /\ Column(note_matrix, 24) = OnlyOnAt(1)

(***************************************************************************)
(* C4.  Channel filtering.                                                 *)
(***************************************************************************)
IsProgramLine(parts) == Len(parts) >= 5 /\ parts[3] = "Program_c"
SelectsNonPiano(parts) ==
  /\ parse_usize(parts[4]).ok
  /\ parse_i32(parts[5]).ok
  /\ ~(parse_i32(parts[5]).v >= 0 /\ parse_i32(parts[5]).v <= 7)
IsNoteLine(parts) ==
  Len(parts) >= 6 /\ parts[3] \in {"Note_on_c", "Note_off_c"}

LineIds == 1..Len(lines)
SomeProgram == \E i \in LineIds : IsProgramLine(lines[i])
AllProgramsNonPiano ==
  \A i \in LineIds : IsProgramLine(lines[i]) => SelectsNonPiano(lines[i])
ProgramBeforeEveryNote ==
  \A i \in LineIds : IsNoteLine(lines[i]) =>
    \E j \in LineIds : /\ j < i
                       /\ IsProgramLine(lines[j])
                       /\ parse_usize(lines[j][4]) = parse_usize(lines[i][4])
NoGlyphs == \A tr \in Transpositions : Glyphs(streams[tr]) = <<>>

\* C4 as claimed: a log with a Program_c record, all of whose Program_c
\* records select an instrument outside [0,7], encodes to streams without
\* any pitch glyph.
C4_Original == (pc = "done" /\ SomeProgram /\ AllProgramsNonPiano) => NoGlyphs

\* C4 as amended: the same, when moreover every note record of the log is
\* read after a Program_c record for its own channel.
C4_ChannelFiltering ==
  (pc = "done" /\ AllProgramsNonPiano /\ ProgramBeforeEveryNote) => NoGlyphs

\* C4 witness: Program_c selects instrument 40 on channel 0, then a Note-on
\* of pitch 24 on channel 0 is read, and no stream holds a glyph
C4_Witness ==
  /\ pc = "done"
  /\ Len(lines) = 2
  /\ IsProgramLine(lines[1]) /\ SelectsNonPiano(lines[1])
  /\ IsNoteLine(lines[2]) /\ WellFormedNote(lines[2]) /\ IsOn(lines[2])
  /\ LinePitch(lines[2]) = 24 /\ parse_i32(lines[2][1]).v <= MAX_TRACK
  /\ ProgramBeforeEveryNote
  /\ NoGlyphs

(***************************************************************************)
(* C5, C6.  The streams against the matrix they are written from.          *)
(***************************************************************************)
GlyphOf(p, tr) == GLYPH_LO + (p - MIN_PITCH + tr)
InBand(g) == g >= GLYPH_LO /\ g <= GLYPH_HI
IsSounding(t, p) == p >= SKIP_PITCHES /\ note_matrix[t][p] # "Off"

\* step t has a glyph to show in transposition tr
StepHasRun(tr, t) ==
  \E p \in PitchSet : IsSounding(t, p) /\ InBand(GlyphOf(p, tr))
RunSteps(tr) == {t \in Steps : StepHasRun(tr, t)}
\* the number of glyph runs of stream tr that come before the one of step t
RunIndex(tr, t) == Cardinality({u \in RunSteps(tr) : u < t})

DelimitersBefore(stream, i) ==
  Cardinality({j \in 1..(i - 1) : stream[j] = SPACE})
\* the glyphs of the k-th run of a stream, k = 0, 1, ...
Run(stream, k) ==
  {stream[i] : i \in {j \in 1..Len(stream) :
                        stream[j] # SPACE /\ DelimitersBefore(stream, j) = k}}

AppearsAt(tr, t, g) ==
  StepHasRun(tr, t) /\ g \in Run(streams[tr], RunIndex(tr, t))

\* C5: for every sounding cell (t, p) with p >= 24 and every transposition
\* tr, the glyph 33 + (p - 22 + tr) is in the run of step t of stream tr
\* exactly when it lies in [33, 126].
C5_TranspositionClipping ==
  pc = "done" =>
    \A t \in Steps, p \in PitchSet, tr \in Transpositions :
      IsSounding(t, p) =>
        (AppearsAt(tr, t, GlyphOf(p, tr)) <=> InBand(GlyphOf(p, tr)))

\* C5 witness: pitch 24 sounds at step 0 and pitch 109 at step 1; stream -6
\* omits pitch 24 and shows pitch 109 as 'r', streams 0 and 5 show both
C5_Witness ==
  /\ pc = "done"
  /\ IsSounding(0, 24) /\ IsSounding(1, 109)
  /\ ~InBand(GlyphOf(24, -6))
  /\ streams[-6] = <<114, SPACE>>
  /\ streams[0] = <<35, SPACE, 120, SPACE>>
  /\ streams[5] = <<40, SPACE, 125, SPACE>>

RECURSIVE SortedSeq(_)
SortedSeq(S) ==
  IF S = {} THEN <<>>
  ELSE LET x == CHOOSE y \in S : \A z \in S : y <= z
       IN <<x>> \o SortedSeq(S \ {x})

\* the encoder's emit rule on the decoder's matrix, from row t on: glyph
\* 33 + p for every active pitch p, no transposition, no floor
RECURSIVE ReEncode(_, _)
ReEncode(m, t) ==
  IF t \notin DOMAIN m THEN <<>>
  ELSE add_formatting(SortedSeq({GLYPH_LO + p : p \in m[t]})) \o ReEncode(m, t + 1)

IsDecodable(c) == c >= GLYPH_LO /\ c < GLYPH_LO + PITCH_RANGE

\* every delimiter closes a run that holds a decodable glyph, and the
\* stream ends with a delimiter
Aligned(stream) ==
  /\ \A i \in 1..Len(stream) :
       stream[i] = SPACE =>
         \E j \in 1..(i - 1) :
           /\ IsDecodable(stream[j])
           /\ DelimitersBefore(stream, j) = DelimitersBefore(stream, i)
  /\ stream # <<>> => stream[Len(stream)] = SPACE

FreshProcessor == [m |-> EmptyMatrix, q |-> InitialQuantum, allowed |-> AllAllowed]

\* the state a freshly constructed MidiProcessor is in after the lines
\* i, i+1, ... of a log that it reads without a panic
RECURSIVE Replay(_, _, _)
Replay(log, i, st) ==
  IF i > Len(log) THEN st
  ELSE LET q == process_tempo_change(log[i], st.q)
           ic == process_instrument_change(log[i], st.allowed)
           ne == process_note_event(log[i], st.m, ic.allowed, q)
       IN Replay(log, i + 1, [m |-> ne.m, q |-> q, allowed |-> ic.allowed])

FreshStreams == generate_output_files(Replay(lines, 1, FreshProcessor).m)

\* C8 as claimed: at the start of every process_file the quantum, the
\* allow-set and the matrix have their initial values, and the streams of a
\* file are those a fresh MidiProcessor writes for it.
C8_Original ==
  /\ (pc = "reading" /\ lines = <<>>) =>
       /\ time_quantum = InitialQuantum
       /\ allowed_channels = AllAllowed
       /\ note_matrix = EmptyMatrix
  /\ pc = "done" => streams = FreshStreams

(***************************************************************************)
(* C9, C10.  Records the line loop is to skip.                             *)
(***************************************************************************)
Skipped ==
  /\ note_matrix' = note_matrix
  /\ time_quantum' = time_quantum
  /\ allowed_channels' = allowed_channels
  /\ pc' = "reading"

\* C9 as claimed: a note record with a non-numeric track, time, channel,
\* pitch or velocity field is skipped: nothing changes and the line loop
\* goes on.
C9_Original ==
  [][(ReadStep /\ IsNoteLine(Line) /\ ~WellFormedNote(Line)) => Skipped]_vars

HasQuote(parts) == \E i \in 1..Len(parts) : contains_quote(parts[i])

\* C10 as claimed: a record with a quoted string in any of its fields is
\* rejected: nothing changes and the line loop goes on.
C10_Original ==
  [][(ReadStep /\ HasQuote(Line)) => Skipped]_vars

(***************************************************************************)
(* C11.  Tempo records.                                                    *)
(***************************************************************************)
\* a Tempo record whose tempo and division parse
IsTempoLine(parts) ==
  /\ Len(parts) >= 6
  /\ parts[3] = "Tempo"
  /\ parse_f32(parts[4]).ok
  /\ parse_f32(parts[6]).ok

\* (50_000 / tempo) * division of a Tempo record
TempoQuantum(parts) ==
  Quantum(TEMPO_SCALE * parse_f32(parts[6]).v, parse_f32(parts[4]).v)

TempoIds == {i \in LineIds : IsTempoLine(lines[i])}
LastTempo == lines[CHOOSE i \in TempoIds : \A j \in TempoIds : j <= i]

\* the fields of a note record the allow-set and the track test admit and
\* whose pitch is a column of the matrix
Gated(parts) ==
  /\ WellFormedNote(parts)
  /\ parse_usize(parts[4]).v \in Channels
  /\ allowed_channels[parse_usize(parts[4]).v]
  /\ parse_i32(parts[1]).v <= MAX_TRACK
  /\ LinePitch(parts) \in PitchSet

\* C11 as claimed: a Tempo record with parseable tempo and division sets the
\* quantum to (50000 / tempo) * division, changes no matrix cell and the
\* line loop goes on; a Note-on read after a Tempo record of its file sets
\* the cell of step floor(ticks / quantum) for the quantum of the last one.
C11_Original ==
  [][ReadStep =>
       /\ IsTempoLine(Line) =>
            /\ time_quantum' = TempoQuantum(Line)
            /\ note_matrix' = note_matrix
            /\ pc' = "reading"
       /\ (TempoIds # {} /\ Gated(Line) /\ IsOn(Line)) =>
            LET time_step == TimeStep(parse_f32(Line[2]).v, TempoQuantum(LastTempo))
            IN time_step < MAX_TIME_STEPS =>
                 note_matrix'[time_step][LinePitch(Line)] # "Off"]_vars

(***************************************************************************)
(* C12.  Admission.                                                        *)
(***************************************************************************)
\* the Program_c records read so far that assign channel ch an instrument
ProgramIds(ch) ==
  {i \in LineIds : /\ IsProgramLine(lines[i])
                   /\ parse_usize(lines[i][4]) = Ok(ch)
                   /\ parse_i32(lines[i][5]).ok}

\* true by default, else whether the most recent Program_c read for channel
\* ch selects an instrument of [0, 7]
AllowedByLog(ch) ==
  IF ProgramIds(ch) = {} THEN TRUE
  ELSE LET last == CHOOSE i \in ProgramIds(ch) : \A j \in ProgramIds(ch) : j <= i
           instrument == parse_i32(lines[last][5]).v
       IN instrument >= 0 /\ instrument <= 7

\* a Note-off at step t of pitch p has an open On before t to sustain from
HasOpenOn(m, p, t) ==
  \E s \in Steps :
    /\ s < t
    /\ m[s][p] = "On"
    /\ \A u \in Steps : (s < u /\ u < t) => m[u][p] # "On"
    /\ \E u \in Steps : s < u /\ u < t /\ m[u][p] = "Off"

\* C12: a well-formed Note_on_c/Note_off_c record whose track is above 8 or
\* whose channel is closed by the most recent earlier Program_c of the file
\* for that channel (open when there is none) changes no cell; one that
\* passes both tests reaches the matrix (a Note-on sets its cell, a Note-off
\* with an open On before it sustains); a Program_c record changes no cell.
C12_AdmissionFold ==
  [][ReadStep =>
       /\ (IsNoteLine(Line) /\ WellFormedNote(Line)
           /\ parse_usize(Line[4]).v \in Channels) =>
            LET admitted == /\ parse_i32(Line[1]).v <= MAX_TRACK
                            /\ AllowedByLog(parse_usize(Line[4]).v)
                p == LinePitch(Line)
                t == LineStep(Line)
                in_range == t < MAX_TIME_STEPS /\ p \in PitchSet
            IN /\ ~admitted => note_matrix' = note_matrix
               /\ (admitted /\ in_range /\ IsOn(Line))
                    => note_matrix'[t][p] # "Off"
               /\ (admitted /\ in_range /\ IsOff(Line) /\ HasOpenOn(note_matrix, p, t))
                    => note_matrix' # note_matrix
               /\ pc' = "reading"
       /\ IsProgramLine(Line) => note_matrix' = note_matrix]_vars

\* C12 witness: a Note-on of pitch 24 at step 0, then Program_c closing its
\* channel, then a Note-on of pitch 24 at step 1: the cell of step 0 is
\* still On and the cell of step 1 is Off
C12_Witness ==
  /\ pc = "reading"
  /\ Len(lines) = 3
  /\ IsNoteLine(lines[1]) /\ IsOn(lines[1]) /\ LineStep(lines[1]) = 0
  /\ IsProgramLine(lines[2]) /\ SelectsNonPiano(lines[2])
  /\ IsNoteLine(lines[3]) /\ IsOn(lines[3]) /\ LineStep(lines[3]) = 1
  /\ LinePitch(lines[1]) = 24 /\ LinePitch(lines[3]) = 24
  /\ parse_usize(lines[3][4]) = parse_usize(lines[2][4])
  /\ ~AllowedByLog(0)
  /\ Column(note_matrix, 24) = OnlyOnAt(0)

(***************************************************************************)
(* C13.  Events and characters out of range.                               *)
(***************************************************************************)
\* the pitch indices of [0, PITCH_RANGE) whose glyph 33 + p is in the run of
\* the stream that comes after exactly s delimiters
PitchesAfter(stream, s) ==
  {p \in 0..(PITCH_RANGE - 1) : GLYPH_LO + p \in Run(stream, s)}

\* C13 as claimed, the decoder's side: on every stream the decoder goes on
\* to the end (it does not abort), and the rows of its matrix hold the
\* characters in range and nothing for a character whose pitch index or
\* step is out of range.
C13_Original ==
  /\ dpc # "panicked"
  /\ dpc \in {"loaded", "written"} =>
       \A s \in D_Steps : d_note_matrix[s] = PitchesAfter(cary, s)

(***************************************************************************)
(* C14.  Failing file operations.                                          *)
(***************************************************************************)
EncoderIOFailure ==
  \/ open_input_fails
  \/ read_line_fails
  \/ \E k \in Transpositions : create_output_fails(k)

DecoderIOFailure ==
  \/ load_compressed_file_fails
  \/ generate_midi_csv_fails

\* C14 as claimed: after a file operation of one file has failed, in the
\* compressor or in the decompressor, the batch goes on: the program is
\* where it takes the next file of the directory.
C14_Original ==
  [][/\ EncoderIOFailure => pc' \in {"idle", "done"}
     /\ DecoderIOFailure => dpc' \in {"new", "written", "failed"}]_vars

(***************************************************************************)
(* C15.  The records written for one pitch.                                *)
(***************************************************************************)
CsvNotes == {csv[i].note : i \in 1..Len(csv)}
\* the places of csv that hold a record of MIDI note n
CsvIds(n) == {i \in 1..Len(csv) : csv[i].note = n}
EarlierOf(n, i) == Cardinality({j \in CsvIds(n) : j < i})

\* the records of note n are Note-on, Note-off, Note-on, ... in turn
Alternates(n) ==
  \A i \in CsvIds(n) :
    IF EarlierOf(n, i) % 2 = 0 THEN IsOnRecord(csv[i]) ELSE IsOffRecord(csv[i])

\* every Note-on of note n has its Note-off after it
Closed(n) == Cardinality(CsvIds(n)) % 2 = 0

\* C15 as claimed: for every stream, the records write_note_events writes
\* for a pitch alternate Note-on, Note-off from a Note-on on, and every
\* Note-on is followed by a Note-off of the same pitch.
C15_Original ==
  dpc = "written" => \A n \in CsvNotes : Alternates(n) /\ Closed(n)

(***************************************************************************)
(* C16.  The records written against the matrix.                           *)
(***************************************************************************)
\* active[s][p], step -1 being all false
Active(s, p) == s \in DOMAIN d_note_matrix /\ p \in d_note_matrix[s]

WrittenCells == (0..(current_time_step - 1)) \X (0..(PITCH_RANGE - 1))
Rising == {c \in WrittenCells : Active(c[1], c[2]) /\ ~Active(c[1] - 1, c[2])}
Falling == {c \in WrittenCells : ~Active(c[1], c[2]) /\ Active(c[1] - 1, c[2])}

OnRecordOf(c) ==
  [track |-> 2, time |-> c[1] * TIME_QUANTUM, kind |-> "Note_on_c",
   channel |-> 1, note |-> c[2] + MIDI_BASE, velocity |-> VELOCITY_ON]
OffRecordOf(c) ==
  [track |-> 2, time |-> c[1] * TIME_QUANTUM, kind |-> "Note_off_c",
   channel |-> 1, note |-> c[2] + MIDI_BASE, velocity |-> 0]

\* C16: the records written are, once each, a Note-on (channel 1, note
\* p + 21, velocity 127, time s * 40) for every step s below the cursor and
\* pitch index p with active[s][p] and not active[s-1][p], and a Note-off
\* (velocity 0, time s * 40) for every s, p with active[s-1][p] and not
\* active[s][p]; nothing else is written.
C16_EdgeTriggered ==
  dpc = "written" =>
    /\ {csv[i] : i \in 1..Len(csv)} =
         {OnRecordOf(c) : c \in Rising} \cup {OffRecordOf(c) : c \in Falling}
    /\ Len(csv) = Cardinality(Rising) + Cardinality(Falling)

\* C16 witness: "# # " is written as Note-on 23 at 0 and Note-off 23 at 80;
\* nothing is written at step 1, where pitch index 2 stays true
C16_Witness ==
  /\ dpc = "written"
  /\ cary = <<35, SPACE, 35, SPACE>>
  /\ Active(0, 2) /\ Active(1, 2) /\ ~Active(2, 2)
  /\ Len(csv) = 2
  /\ csv[1] = [track |-> 2, time |-> 0, kind |-> "Note_on_c",
               channel |-> 1, note |-> 23, velocity |-> 127]
  /\ csv[2] = [track |-> 2, time |-> 80, kind |-> "Note_off_c",
               channel |-> 1, note |-> 23, velocity |-> 0]

(***************************************************************************)
(* C17.  The state load_compressed_file leaves.                            *)
(***************************************************************************)
\* C17: once load_compressed_file has returned for a stream, whatever was
\* loaded before, the cursor is the number of spaces of the stream plus 1,
\* and active[s][p] is true exactly for the pitch indices p of [0, 87)
\* whose glyph 33 + p occurs in the stream after exactly s spaces.
C17_LoadCursor ==
  dpc \in {"loaded", "written"} =>
    /\ current_time_step = NumDelimiters(cary) + 1
    /\ \A s \in 0..Len(cary), p \in 0..(PITCH_RANGE - 1) :
         Active(s, p) <=> (GLYPH_LO + p) \in Run(cary, s)

\* C17 witness: "#x '" is loaded: the cursor is 2, row 0 holds pitch index
\* 2 only ('x' is out of range) and row 1 holds pitch index 6
C17_Witness ==
  /\ dpc = "loaded"
  /\ cary = <<35, 120, SPACE, 39>>
  /\ current_time_step = 2
  /\ d_note_matrix[0] = {2}
  /\ d_note_matrix[1] = {6}
  /\ \A s \in D_Steps : s > 1 => d_note_matrix[s] = {}

(***************************************************************************)
(* C18.  The content of a stream.                                          *)
(***************************************************************************)
\* C18: every character of every stream written is a space or a glyph of
\* code in [33, 126]; a space comes only right after a glyph; and of two
\* glyphs next to each other (the same step) the second has the higher
\* code.
C18_StreamContent ==
  \A tr \in Transpositions :
    LET stream == streams[tr]
    IN \A i \in 1..Len(stream) :
         /\ stream[i] = SPACE \/ InBand(stream[i])
         /\ stream[i] = SPACE => (i > 1 /\ stream[i - 1] # SPACE)
         /\ (i > 1 /\ stream[i] # SPACE /\ stream[i - 1] # SPACE)
              => stream[i - 1] < stream[i]

\* C18 witness: pitches 24 and 109 sound at step 1: stream 0 is "#x " and
\* stream -6, where pitch 24 is clipped, is "r "
C18_Witness ==
  /\ pc = "done"
  /\ IsSounding(1, 24) /\ IsSounding(1, 109)
  /\ streams[0] = <<35, 120, SPACE>>
  /\ streams[-6] = <<114, SPACE>>

(***************************************************************************)
(* C19, C20.  Note-off after a closed interval, Note-on inside an open one. *)
(***************************************************************************)
\* the nearest On cell of pitch p before step t is at step j
NearestOn(m, p, t, j) ==
  /\ j < t
  /\ m[j][p] = "On"
  /\ \A u \in Steps : (j < u /\ u < t) => m[u][p] # "On"

\* the nearest On before t belongs to an interval already closed: its
\* Note-on was read, and after it a Note-off at a step e between the two
ClosedBefore(p, t) ==
  \E j \in Steps, i \in LineIds, k \in LineIds :
    /\ NearestOn(note_matrix, p, t, j)
    /\ i < k
    /\ Admitted(lines[i]) /\ IsOn(lines[i])
    /\ LinePitch(lines[i]) = p /\ LineStep(lines[i]) = j
    /\ Admitted(lines[k]) /\ IsOff(lines[k])
    /\ LinePitch(lines[k]) = p
    /\ j < LineStep(lines[k]) /\ LineStep(lines[k]) < t

\* C19 as claimed: a Note-off at step t whose nearest On before t belongs
\* to an interval that an earlier Note-off has closed changes no cell.
C19_Original ==
  [][(ReadStep /\ Admitted(Line) /\ IsOff(Line)
      /\ ClosedBefore(LinePitch(Line), LineStep(Line)))
     => note_matrix' = note_matrix]_vars

NonDecreasing ==
  \A i, k \in LineIds : i < k => LineStep(lines[i]) <= LineStep(lines[k])

\* line k is the first Note-off of the pitch of line i that is read after
\* line i and lies at a later step
NextOffAfter(i, k) ==
  /\ i < k
  /\ IsOff(lines[k])
  /\ LinePitch(lines[k]) = LinePitch(lines[i])
  /\ LineStep(lines[i]) < LineStep(lines[k])
  /\ \A n \in LineIds :
       (i < n /\ n < k /\ IsOff(lines[n]) /\ LinePitch(lines[n]) = LinePitch(lines[i]))
         => LineStep(lines[n]) <= LineStep(lines[i])

\* C20 as claimed: in a log of admitted note events in non-decreasing step
\* order, once the next Note-off at a step e after a Note-on at step s of
\* the same pitch has been read, no step of [s, e) is Off for the pitch.
C20_Original ==
  (pc \in {"reading", "done"} /\ NonDecreasing) =>
    \A i, k \in LineIds :
      (Admitted(lines[i]) /\ IsOn(lines[i]) /\ Admitted(lines[k]) /\ NextOffAfter(i, k))
        => \A t \in Steps :
             (LineStep(lines[i]) <= t /\ t < LineStep(lines[k]))
               => note_matrix[t][LinePitch(lines[i])] # "Off"

(***************************************************************************)
(* C21.  The velocity of a Note_on_c record.                               *)
(***************************************************************************)
\* what a Note-off of pitch p at step t does to matrix m: from the nearest
\* On cell before t, if there is one, the Off cells up to t are Sustained
OffEffect(m, p, t) ==
  [u \in Steps |->
     IF /\ u < t
        /\ m[u][p] = "Off"
        /\ \E j \in Steps : NearestOn(m, p, t, j) /\ j <= u
       THEN [m[u] EXCEPT ![p] = "Sustained"]
       ELSE m[u]]

OnEffect(m, p, t) ==
  [m EXCEPT ![t][p] = IF @ = "Off" THEN "On" ELSE @]

NoNewOn(m, n) ==
  \A u \in Steps, p \in PitchSet : n[u][p] = "On" => m[u][p] = "On"

\* C21: an admitted Note_on_c record of velocity 0 does to the matrix what
\* a Note_off_c record of the same step and pitch does (the Note-off
\* effect); a Note_on_c record sets its cell On when its velocity is 1 or
\* more and no cell On otherwise; one of negative velocity changes nothing.
C21_VelocityDispatch ==
  [][(ReadStep /\ Admitted(Line)) =>
       LET p == LinePitch(Line)
           t == LineStep(Line)
           velocity == parse_i32(Line[6]).v
       IN /\ (Line[3] = "Note_off_c" \/ (Line[3] = "Note_on_c" /\ velocity = 0))
               => note_matrix' = OffEffect(note_matrix, p, t)
          /\ (Line[3] = "Note_on_c" /\ velocity >= 1)
               => note_matrix' = OnEffect(note_matrix, p, t)
          /\ (Line[3] = "Note_on_c" /\ velocity < 1)
               => NoNewOn(note_matrix, note_matrix')
          /\ (Line[3] = "Note_on_c" /\ velocity < 0)
               => note_matrix' = note_matrix]_vars

\* C21 witness: a Note-on of pitch 24 at step 1, a Note_on_c of velocity -1
\* at step 0, then a Note_on_c of velocity 0 at step 3: step 0 is Off,
\* step 1 On and step 2 Sustained, as after a Note_off_c at step 3
C21_Witness ==
  /\ pc = "reading"
  /\ Len(lines) = 3
  /\ IsOn(lines[1]) /\ LineStep(lines[1]) = 1 /\ LinePitch(lines[1]) = 24
  /\ lines[2][3] = "Note_on_c" /\ parse_i32(lines[2][6]).v < 0
  /\ LineStep(lines[2]) = 0 /\ LinePitch(lines[2]) = 24
  /\ lines[3][3] = "Note_on_c" /\ parse_i32(lines[3][6]).v = 0
  /\ LineStep(lines[3]) = 3 /\ LinePitch(lines[3]) = 24
  /\ Admitted(lines[2]) /\ Admitted(lines[3])
  /\ Column(note_matrix, 24) = Sounding(1, 3)

(***************************************************************************)
(* C22.  The 12 streams of one matrix against each other.                  *)
(***************************************************************************)
\* the time step whose glyph run is run k (k = 0, 1, ...) of stream tr
StepOfRun(tr, k) == CHOOSE t \in RunSteps(tr) : RunIndex(tr, t) = k

\* run k of stream tr holds the glyphs of that step
RunMatchesStep(tr, k) ==
  Run(streams[tr], k) =
    {GlyphOf(p, tr) : p \in {q \in PitchSet : /\ IsSounding(StepOfRun(tr, k), q)
                                              /\ InBand(GlyphOf(q, tr))}}

\* all streams hold as many delimiters as stream 0, and the k-th delimiter
\* of each closes the run of the step the k-th delimiter of stream 0 closes
StepAligned ==
  /\ \A tr \in Transpositions :
       /\ NumDelimiters(streams[tr]) = NumDelimiters(streams[0])
       /\ NumDelimiters(streams[tr]) = Cardinality(RunSteps(tr))
  /\ \A tr \in Transpositions :
       \A k \in 0..(NumDelimiters(streams[tr]) - 1) :
         /\ RunMatchesStep(tr, k)
         /\ StepOfRun(tr, k) = StepOfRun(0, k)

\* no transposition clips a sounding step to nothing: every step with a
\* sounding pitch has one whose glyph is in the band at transposition -6
NoStepClipped ==
  \A t \in Steps :
    (\E p \in PitchSet : IsSounding(t, p))
      => \E p \in PitchSet : IsSounding(t, p) /\ p >= MIN_PITCH + 6

====
